---- MODULE Spec2Model ----
(***************************************************************************)
(* Model of random-maze-generator/src/app.py: MazeGenerator (recursive     *)
(* backtracking carving on a step-2 lattice) and MazeSolver (A* search     *)
(* with the Manhattan heuristic on a 0/1 grid).                            *)
(*                                                                         *)
(* A grid is a function from <<row, col>> to 0 (wall) or 1 (path), as the  *)
(* numpy array maze[row, col].  The generator names a cell (x, y) with x   *)
(* the column and y the row; the solver names a cell (x, y) with x the row *)
(* and y the column.  Both index the array as [row, col].                  *)
(***************************************************************************)
EXTENDS Integers, Sequences, FiniteSets, Bags, TLC

\* Largest width and largest height handed to MazeGenerator.
MaxWidth == 5

MaxHeight == 3

\* Largest number of cells of the grids handed directly to MazeSolver.
MaxCells == 6

\* Python's None where a cell is expected (the end argument's default)
None == <<>>

\* no exception
NoError == "None"

\* a_star_solve's return value: None, or a path
NoPath == [some |-> FALSE, path |-> <<>>]

SomePath(p) == [some |-> TRUE, path |-> p]

VARIABLES
    pc,         \* where the generator's caller stands
    width,      \* MazeGenerator.width
    height,     \* MazeGenerator.height
    maze,       \* MazeGenerator.maze
    visited,    \* MazeGenerator.visited
    stack,      \* call stack of _carve_passages_from: frames [cx, cy, dirs]
    error,      \* the exception that ended the generator's call, or None
    entered,    \* history: how often _carve_passages_from was entered per cell
    marked,     \* history: how often a cell's visited flag was set
    spc,        \* where a_star_solve stands
    grid,       \* MazeSolver.maze
    sheight,    \* MazeSolver.height
    swidth,     \* MazeSolver.width
    start,      \* a_star_solve's start
    end,        \* a_star_solve's end, after the default is filled in
    open_set,   \* the PriorityQueue, a bag of <<f, cell>>
    came_from,  \* dict cell -> cell
    g_score,    \* dict cell -> int
    f_score,    \* dict cell -> int
    pops,       \* history: number of open_set.get() calls of this solve
    result      \* what a_star_solve returned: NoPath or SomePath(path)

gvars == <<pc, width, height, maze, visited, stack, error, entered, marked>>
svars == <<spc, grid, sheight, swidth, start, end, open_set, came_from,
           g_score, f_score, pops, result>>
vars == <<gvars, svars>>

----------------------------------------------------------------------------
\* Helpers for numpy arrays and Python containers.

Cells(h, w) == (0 .. h - 1) \X (0 .. w - 1)

\* np.zeros((h, w)) for non-negative h and w.
Zeros(h, w) == [c \in Cells(h, w) |-> 0]

\* np.zeros((h, w), dtype=bool)
Falses(h, w) == [c \in Cells(h, w) |-> FALSE]

\* Mutant: the dimensions are rejected only when both are negative.
ZerosRaises_Both(h, w) == h < 0 /\ w < 0

\* np.zeros raises ValueError ("negative dimensions are not allowed").
ZerosRaises(h, w) == h < 0 \/ w < 0

\* Indexing [0, 0] raises IndexError on an array with an axis of size 0.
IndexZeroRaises(h, w) == h = 0 \/ w = 0

\* dict[k] = v
Put(d, k, v) == [x \in DOMAIN d \cup {k} |-> IF x = k THEN v ELSE d[x]]

EmptyDict == [x \in {} |-> 0]

----------------------------------------------------------------------------
\* MazeGenerator

\* The arguments MazeGenerator is constructed with: positive, zero, negative.
Widths == (0 - 1) .. MaxWidth

Heights == (0 - 1) .. MaxHeight

\* directions of _carve_passages_from, as (dx, dy).  random.shuffle leaves the
\* list in any of its 24 orders and the for loop then walks it; a frame keeps
\* the directions the loop has not reached yet and each iteration takes any one
\* of them, which yields exactly the 24 orders without storing the order.
CarveDirections == {<<0, 2>>, <<2, 0>>, <<0, -2>>, <<-2, 0>>}

\* Python's d // 2 (floor division)
FloorHalf(d) == d \div 2

\* 0 <= nx < self.width and 0 <= ny < self.height
CarveInBounds(nx, ny) == 0 <= nx /\ nx < width /\ 0 <= ny /\ ny < height

\* the condition of the if in _carve_passages_from
CanCarve(nx, ny) == CarveInBounds(nx, ny) /\ ~visited[<<ny, nx>>]

\* Mutant: the flag is set at [nx, ny], the axes swapped.
MarkVisited_Swapped(v, nx, ny) == [v EXCEPT ![<<nx, ny>>] = TRUE]

\* self.visited[ny, nx] = True
MarkVisited(v, nx, ny) == [v EXCEPT ![<<ny, nx>>] = TRUE]

\* Mutant: the wall towards a cell already visited is knocked down too.
CarvedMaze_Braid(cx, cy, dx, dy) ==
    IF CarveInBounds(cx + dx, cy + dy)
    THEN [maze EXCEPT ![<<cy + FloorHalf(dy), cx + FloorHalf(dx)>>] = 1,
                      ![<<cy + dy, cx + dx>>] = 1]
    ELSE maze

\* the maze after the loop body has handled direction (dx, dy) from (cx, cy)
CarvedMaze(cx, cy, dx, dy) ==
    IF CanCarve(cx + dx, cy + dy)
    THEN [maze EXCEPT ![<<cy + FloorHalf(dy), cx + FloorHalf(dx)>>] = 1,
                      ![<<cy + dy, cx + dx>>] = 1]
    ELSE maze

\* Mutant: only start is forced to path.
ForcedMaze_StartOnly(m) == [m EXCEPT ![<<0, 0>>] = 1]

\* the maze generate_maze returns: start and end forced to path
ForcedMaze(m) == [m EXCEPT ![<<0, 0>>] = 1, ![<<height - 1, width - 1>>] = 1]

\* The frame of a new call _carve_passages_from(cx, cy).
Frame(cx, cy) == [cx |-> cx, cy |-> cy, dirs |-> CarveDirections]

Bump(h, c) == Put(h, c, IF c \in DOMAIN h THEN h[c] + 1 ELSE 1)

\* MazeGenerator(width, height)
Construct ==
    /\ pc = "new"
    /\ IF ZerosRaises(height, width)
       THEN /\ pc' = "error"
            /\ error' = "ValueError"
            /\ UNCHANGED <<maze, visited>>
       ELSE /\ pc' = "constructed"
            /\ maze' = Zeros(height, width)
            /\ visited' = Falses(height, width)
            /\ UNCHANGED error
    /\ UNCHANGED <<width, height, stack, entered, marked, svars>>

\* generate_maze up to and including the call of _carve_passages_from(0, 0)
GenerateBegin ==
    /\ pc = "constructed"
    /\ maze' = Zeros(height, width)
    /\ IF IndexZeroRaises(height, width)
       THEN /\ pc' = "error"
            /\ error' = "IndexError"
            /\ visited' = Falses(height, width)
            /\ UNCHANGED <<stack, entered, marked>>
       ELSE /\ pc' = "carving"
            /\ visited' = MarkVisited(Falses(height, width), 0, 0)
            /\ marked' = Bump(marked, <<0, 0>>)
            /\ entered' = Bump(entered, <<0, 0>>)
            /\ stack' = <<Frame(0, 0)>>
            /\ UNCHANGED error
    /\ UNCHANGED <<width, height, svars>>

\* One iteration of the for loop of the innermost _carve_passages_from call.
CarveStep ==
    /\ pc = "carving"
    /\ stack # <<>>
    /\ LET top == stack[Len(stack)]
       IN \E d \in top.dirs :
            LET dx == d[1]
                dy == d[2]
                nx == top.cx + dx
                ny == top.cy + dy
                rest == [top EXCEPT !.dirs = top.dirs \ {d}]
                below == SubSeq(stack, 1, Len(stack) - 1)
            IN /\ maze' = CarvedMaze(top.cx, top.cy, dx, dy)
               /\ IF CanCarve(nx, ny)
                  THEN /\ visited' = MarkVisited(visited, nx, ny)
                       /\ marked' = Bump(marked, <<ny, nx>>)
                       /\ entered' = Bump(entered, <<ny, nx>>)
                       /\ stack' = below \o <<rest, Frame(nx, ny)>>
                  ELSE /\ stack' = below \o <<rest>>
                       /\ UNCHANGED <<visited, marked, entered>>
    /\ UNCHANGED <<pc, width, height, error, svars>>

\* The for loop of the innermost call is exhausted: the call returns.
CarveReturn ==
    /\ pc = "carving"
    /\ stack # <<>>
    /\ stack[Len(stack)].dirs = {}
    /\ stack' = SubSeq(stack, 1, Len(stack) - 1)
    /\ UNCHANGED <<pc, width, height, maze, visited, error, entered, marked,
                   svars>>

\* generate_maze after _carve_passages_from(0, 0) has returned
GenerateFinish ==
    /\ pc = "carving"
    /\ stack = <<>>
    /\ maze' = ForcedMaze(maze)
    /\ pc' = "generated"
    /\ UNCHANGED <<width, height, visited, stack, error, entered, marked,
                   svars>>

----------------------------------------------------------------------------
\* MazeSolver

Abs(n) == IF n < 0 THEN 0 - n ELSE n

\* MazeSolver.heuristic: Manhattan distance
heuristic(a, b) == Abs(a[1] - b[1]) + Abs(a[2] - b[2])

\* Mutant: the last direction repeats (1, 0), so no move goes up a row.
SolveDirections_NoUp == << <<0, 1>>, <<1, 0>>, <<0, -1>>, <<1, 0>> >>

\* directions of get_neighbors, as (dx, dy) with x the row
SolveDirections == << <<0, 1>>, <<1, 0>>, <<0, -1>>, <<-1, 0>> >>

\* 0 <= nx < self.height and 0 <= ny < self.width
InGrid(nx, ny) == 0 <= nx /\ nx < sheight /\ 0 <= ny /\ ny < swidth

\* Mutant: walls are not excluded.
IsNeighbor_ThroughWalls(nx, ny) == InGrid(nx, ny)

\* the condition of the if in get_neighbors
IsNeighbor(nx, ny) == InGrid(nx, ny) /\ grid[<<nx, ny>>] # 0

\* MazeSolver.get_neighbors: the list of neighbours, in direction order
get_neighbors(current) ==
    LET cand == [i \in 1 .. Len(SolveDirections) |->
                    <<current[1] + SolveDirections[i][1],
                      current[2] + SolveDirections[i][2]>>]
        Valid(c) == IsNeighbor(c[1], c[2])
    IN SelectSeq(cand, Valid)

\* Python's order on the queue's entries (f, (x, y))
EntryLess(a, b) ==
    \/ a[1] < b[1]
    \/ a[1] = b[1] /\ a[2][1] < b[2][1]
    \/ a[1] = b[1] /\ a[2][1] = b[2][1] /\ a[2][2] < b[2][2]

\* Mutant: the queue hands out its largest entry.
NextEntry_Largest(q) ==
    CHOOSE e \in BagToSet(q) : \A o \in BagToSet(q) : o = e \/ EntryLess(o, e)

\* the entry open_set.get() returns: the smallest one
NextEntry(q) ==
    CHOOSE e \in BagToSet(q) : \A o \in BagToSet(q) : o = e \/ EntryLess(e, o)

\* open_set.put(e)
QueuePut(q, e) == q (+) SetToBag({e})

\* the queue after open_set.get() has removed e
QueueRemove(q, e) == q (-) SetToBag({e})

\* neighbor not in g_score or tentative_g_score < g_score[neighbor]
Improves(g, neighbor, tentative) ==
    neighbor \notin DOMAIN g \/ tentative < g[neighbor]

\* The for loop over get_neighbors(current): st holds came_from, g_score,
\* f_score and open_set.
RECURSIVE Relax(_, _, _)
Relax(nbrs, current, st) ==
    IF nbrs = <<>> THEN st
    ELSE LET neighbor == Head(nbrs)
             tentative == st.g[current] + 1
         IN IF Improves(st.g, neighbor, tentative)
            THEN LET f == tentative + heuristic(neighbor, end)
                 IN Relax(Tail(nbrs), current,
                          [cf |-> Put(st.cf, neighbor, current),
                           g |-> Put(st.g, neighbor, tentative),
                           f |-> Put(st.f, neighbor, f),
                           q |-> QueuePut(st.q, <<f, neighbor>>)])
            ELSE Relax(Tail(nbrs), current, st)

\* The while loop of the reconstruction: the cells appended to path, and the
\* cell the loop stops at.
RECURSIVE Chain(_, _)
Chain(cf, current) ==
    IF current \in DOMAIN cf
    THEN <<current>> \o Chain(cf, cf[current])
    ELSE <<>>

RECURSIVE ChainEnd(_, _)
ChainEnd(cf, current) ==
    IF current \in DOMAIN cf THEN ChainEnd(cf, cf[current]) ELSE current

Reverse(s) == [i \in 1 .. Len(s) |-> s[Len(s) + 1 - i]]

\* Mutant: the path is not reversed.
ReconstructPath_NotReversed(cf, current) == Chain(cf, current) \o <<start>>

\* the path a_star_solve returns once it has popped end
ReconstructPath(cf, current) == Reverse(Chain(cf, current) \o <<start>>)

\* a_star_solve(s, e) up to the while loop, on a solver holding grid g of
\* shape (h, w)
BeginSolve(s, e) ==
    LET goal == IF e = None THEN <<sheight - 1, swidth - 1>> ELSE e
    IN /\ start' = s
       /\ end' = goal
       /\ open_set' = QueuePut(EmptyBag, <<0, s>>)
       /\ came_from' = EmptyDict
       /\ g_score' = Put(EmptyDict, s, 0)
       /\ f_score' = Put(EmptyDict, s, heuristic(s, goal))
       /\ pops' = 0
       /\ result' = NoPath
       /\ spc' = "searching"

\* The cells a caller may name: the grid's cells and the ring around it.
Positions == ((0 - 1) .. sheight) \X ((0 - 1) .. swidth)

\* solver.a_star_solve(s, e) is called on the constructed solver
SolveBegin ==
    /\ spc = "ready"
    /\ \E s \in Positions, e \in Positions \cup {None} : BeginSolve(s, e)
    /\ UNCHANGED <<gvars, grid, sheight, swidth>>

\* A while iteration that pops a cell other than end and relaxes its
\* neighbours.
SolveExpand ==
    /\ spc = "searching"
    /\ open_set # EmptyBag
    /\ LET e == NextEntry(open_set)
           current == e[2]
           st == Relax(get_neighbors(current), current,
                       [cf |-> came_from, g |-> g_score, f |-> f_score,
                        q |-> QueueRemove(open_set, e)])
       IN /\ current # end
          /\ came_from' = st.cf
          /\ g_score' = st.g
          /\ f_score' = st.f
          /\ open_set' = st.q
    /\ pops' = pops + 1
    /\ UNCHANGED <<gvars, spc, grid, sheight, swidth, start, end, result>>

\* The while iteration that pops end: reconstruct the path and return it.
SolveReturnPath ==
    /\ spc = "searching"
    /\ open_set # EmptyBag
    /\ LET e == NextEntry(open_set)
       IN /\ e[2] = end
          /\ open_set' = QueueRemove(open_set, e)
          /\ result' = SomePath(ReconstructPath(came_from, e[2]))
    /\ pops' = pops + 1
    /\ spc' = "returned"
    /\ UNCHANGED <<gvars, grid, sheight, swidth, start, end, came_from,
                   g_score, f_score>>

\* The queue is empty: return None.
SolveReturnNone ==
    /\ spc = "searching"
    /\ open_set = EmptyBag
    /\ result' = NoPath
    /\ spc' = "returned"
    /\ UNCHANGED <<gvars, grid, sheight, swidth, start, end, open_set,
                   came_from, g_score, f_score, pops>>

\* main: MazeSolver(st.session_state.maze) and solver.a_star_solve()
MainSolve ==
    /\ pc = "generated"
    /\ spc = "idle"
    /\ grid' = maze
    /\ sheight' = height
    /\ swidth' = width
    /\ LET s == <<0, 0>>
           goal == <<height - 1, width - 1>>
       IN /\ start' = s
          /\ end' = goal
          /\ open_set' = QueuePut(EmptyBag, <<0, s>>)
          /\ came_from' = EmptyDict
          /\ g_score' = Put(EmptyDict, s, 0)
          /\ f_score' = Put(EmptyDict, s, heuristic(s, goal))
          /\ pops' = 0
          /\ result' = NoPath
          /\ spc' = "searching"
    /\ UNCHANGED gvars

----------------------------------------------------------------------------
\* Specifications

SolverIdle ==
    /\ spc = "idle"
    /\ grid = <<>> /\ sheight = 0 /\ swidth = 0
    /\ start = None /\ end = None
    /\ open_set = EmptyBag
    /\ came_from = EmptyDict /\ g_score = EmptyDict /\ f_score = EmptyDict
    /\ pops = 0
    /\ result = NoPath

\* A generator about to be constructed with any width and height, as main
\* does on "Generate New Maze"; no solver yet.
GenInit ==
    /\ pc = "new"
    /\ width \in Widths
    /\ height \in Heights
    /\ maze = <<>>
    /\ visited = <<>>
    /\ stack = <<>>
    /\ error = NoError
    /\ entered = EmptyDict
    /\ marked = EmptyDict
    /\ SolverIdle

GenNext ==
    \/ Construct
    \/ GenerateBegin
    \/ CarveStep
    \/ CarveReturn
    \/ GenerateFinish
    \/ MainSolve
    \/ SolveExpand
    \/ SolveReturnPath
    \/ SolveReturnNone

\* MazeGenerator followed by MazeSolver with its defaults, as main composes
\* them.
Spec == GenInit /\ [][GenNext]_vars

\* The shapes (h, w) of the grids handed directly to MazeSolver.
Shapes == {sh \in (1 .. MaxCells) \X (1 .. MaxCells) : sh[1] * sh[2] <= MaxCells}

\* The grids of section 8's scenarios: 5x5 fully open, and 5x5 with a complete
\* wall row.
OpenGrid == [c \in Cells(5, 5) |-> 1]

WallRowGrid == [c \in Cells(5, 5) |-> IF c[1] = 2 THEN 0 ELSE 1]

\* A MazeSolver constructed on any small grid or on a scenario grid; no
\* generator.
SolveInit ==
    /\ pc = "unused"
    /\ width = 0 /\ height = 0
    /\ maze = <<>> /\ visited = <<>> /\ stack = <<>>
    /\ error = NoError
    /\ entered = EmptyDict /\ marked = EmptyDict
    /\ \/ \E sh \in Shapes :
             /\ sheight = sh[1]
             /\ swidth = sh[2]
             /\ grid \in [Cells(sh[1], sh[2]) -> {0, 1}]
       \/ /\ sheight = 5
          /\ swidth = 5
          /\ grid \in {OpenGrid, WallRowGrid}
    /\ spc = "ready"
    /\ start = None /\ end = None
    /\ open_set = EmptyBag
    /\ came_from = EmptyDict /\ g_score = EmptyDict /\ f_score = EmptyDict
    /\ pops = 0
    /\ result = NoPath

SolveNext == SolveBegin \/ SolveExpand \/ SolveReturnPath \/ SolveReturnNone

\* MazeSolver.a_star_solve on arbitrary grids, starts and ends.
SolveSpec == SolveInit /\ [][SolveNext]_vars

----------------------------------------------------------------------------
\* Properties

\* a cell of the solver's grid
InBounds(c) == c \in DOMAIN grid

\* one unit step in exactly one axis
Adjacent(a, b) == Abs(a[1] - b[1]) + Abs(a[2] - b[2]) = 1

\* the solver's call has returned a path
ReturnedPath == spc = "returned" /\ result.some

\* Breadth-first search on grid g, independent of the solver: the number of
\* cells of a shortest walk from the frontier's origin to e in which every
\* move enters an in-bounds cell that is not a wall, or 0 when there is none.
RECURSIVE BFS(_, _, _, _, _)
BFS(g, e, frontier, seen, n) ==
    IF e \in frontier THEN n
    ELSE LET nxt == {b \in DOMAIN g \ seen :
                        g[b] # 0 /\ \E a \in frontier : Adjacent(a, b)}
         IN IF nxt = {} THEN 0 ELSE BFS(g, e, nxt, seen \cup nxt, n + 1)

ShortestLen(g, s, e) == BFS(g, e, {s}, {s}, 1)

\* C1: when end is reachable from an in-bounds start by 4-directional moves
\* through path cells, the returned path has exactly as many cells as the
\* shortest path an independent breadth-first search finds.
C1_Optimal ==
    (spc = "returned" /\ InBounds(start) /\ InBounds(end)
        /\ ShortestLen(grid, start, end) > 0)
    => (result.some /\ Len(result.path) = ShortestLen(grid, start, end))

\* The 5x5 fully open grid solved from (0,0) to (4,4) with 9 cells.
C1_Witness ==
    /\ ReturnedPath
    /\ grid = OpenGrid
    /\ start = <<0, 0>> /\ end = <<4, 4>>
    /\ Len(result.path) = 9

\* C2: a returned path begins at start, ends at end, moves by one unit step
\* in one axis between consecutive cells, and the came_from chain followed
\* from end stops at start.
C2_WellFormed ==
    ReturnedPath =>
        /\ result.path[1] = start
        /\ result.path[Len(result.path)] = end
        /\ \A i \in 1 .. Len(result.path) - 1 :
               Adjacent(result.path[i], result.path[i + 1])
        /\ ChainEnd(came_from, end) = start

\* A returned path that takes a detour: more cells than the Manhattan
\* distance needs.
C2_Witness ==
    /\ ReturnedPath
    /\ Len(result.path) > heuristic(start, end) + 1

\* C3: every cell on a returned path is a path cell, start and end included.
C3_AllPathCells ==
    (ReturnedPath /\ InBounds(start) /\ InBounds(end))
    => \A i \in 1 .. Len(result.path) :
           InBounds(result.path[i]) /\ grid[result.path[i]] # 0

RECURSIVE Flood(_, _)
Flood(g, seen) ==
    LET nxt == {b \in DOMAIN g \ seen :
                   g[b] # 0 /\ \E a \in seen : Adjacent(a, b)}
    IN IF nxt = {} THEN seen ELSE Flood(g, seen \cup nxt)

Component == Flood(maze, {<<0, 0>>})

\* the edges between 4-adjacent cells of the component, each counted once
ComponentEdges ==
    {pr \in Component \X Component :
        Adjacent(pr[1], pr[2])
        /\ (pr[1][1] < pr[2][1] \/ pr[1][2] < pr[2][2])}

RECURSIVE SumOver(_, _)
SumOver(f, S) ==
    IF S = {} THEN 0
    ELSE LET x == CHOOSE y \in S : TRUE IN f[x] + SumOver(f, S \ {x})

\* the number of simple paths through path cells from cur to target that avoid
\* the cells of used
RECURSIVE SimplePaths(_, _, _)
SimplePaths(cur, target, used) ==
    IF cur = target THEN 1
    ELSE LET nbrs == {b \in DOMAIN maze \ used : maze[b] # 0 /\ Adjacent(cur, b)}
             cnt == [b \in nbrs |-> SimplePaths(b, target, used \cup {b})]
         IN SumOver(cnt, nbrs)

\* the cells of the step-2 lattice that carving made path cells
CarvedLattice ==
    {c \in DOMAIN maze : c[1] % 2 = 0 /\ c[2] % 2 = 0 /\ maze[c] # 0}

\* C5: after generate_maze the path cells reachable from (0,0) form a graph
\* without a cycle, and every carved lattice cell has exactly one simple path
\* to (0,0).
C5_Tree ==
    pc = "generated" =>
        /\ Cardinality(ComponentEdges) = Cardinality(Component) - 1
        /\ \A c \in CarvedLattice : SimplePaths(<<0, 0>>, c, {<<0, 0>>}) = 1

\* A generated maze on the largest lattice, where four lattice cells around a
\* block could close a cycle.
C5_Witness ==
    /\ pc = "generated"
    /\ width = MaxWidth /\ height = MaxHeight
    /\ Cardinality(CarvedLattice) >= 4

\* C6: the grid generate_maze returns has a path cell at (0,0) and at
\* (height-1, width-1).
C6_StartEndPath ==
    pc = "generated" =>
        /\ maze[<<0, 0>>] = 1
        /\ maze[<<height - 1, width - 1>>] = 1

\* A generated maze whose end cell is off the lattice, so only forcing makes
\* it a path cell.
C6_Witness ==
    /\ pc = "generated"
    /\ width % 2 = 0 /\ height % 2 = 0
    /\ maze[<<height - 1, width - 1>>] = 1

\* C7: with start or end outside the grid the call fails before any search
\* work: it pops nothing from the queue and returns nothing.
C7_OutOfBoundsFails ==
    (spc # "ready" /\ spc # "idle" /\ ~(InBounds(start) /\ InBounds(end)))
    => (pops = 0 /\ spc # "returned")

\* C8: with a non-positive width or height the construction or the call of
\* generate_maze raises before _carve_passages_from is entered, and no grid is
\* returned: a negative dimension raises in the constructor, a zero dimension
\* in generate_maze.
C8_InvalidDimensions ==
    (width <= 0 \/ height <= 0) =>
        /\ pc \in {"new", "constructed", "error"}
        /\ (width < 0 \/ height < 0) => pc \in {"new", "error"}
        /\ pc = "error" => error \in {"ValueError", "IndexError"}
        /\ pc # "error" => error = NoError
        /\ stack = <<>>
        /\ entered = EmptyDict
        /\ spc = "idle"

\* generate_maze has raised on a zero width.
C8_Witness ==
    /\ width = 0 /\ height > 0
    /\ pc = "error"
    /\ error = "IndexError"

\* no cell was entered twice and no visited flag set twice
VisitedOnce ==
    /\ \A c \in DOMAIN entered : entered[c] <= 1
    /\ \A c \in DOMAIN marked : marked[c] <= 1

\* the steps of the generator alone
GenSteps ==
    Construct \/ GenerateBegin \/ CarveStep \/ CarveReturn \/ GenerateFinish

RECURSIVE PendingWork(_)
PendingWork(st) ==
    IF st = <<>> THEN 0
    ELSE 1 + Cardinality(Head(st).dirs) + PendingWork(Tail(st))

\* What is left to do while carving: the loop iterations and returns of the
\* calls on the stack, and five steps for every cell not yet visited (the
\* iteration that visits it, and the four iterations and the return of the
\* call it opens).
Work ==
    5 * Cardinality({c \in DOMAIN visited : ~visited[c]}) + PendingWork(stack)

\* C9: for positive width and height generate_maze terminates, whatever the
\* shuffles, and enters each cell and sets its visited flag at most once.
\* Termination: the call never raises and is never stuck before it has
\* returned, and every carving step lowers the natural number Work, so at most
\* Work steps follow the first call of _carve_passages_from.
C9_Terminates ==
    /\ []VisitedOnce
    /\ []((width > 0 /\ height > 0) =>
             /\ pc # "error"
             /\ pc # "generated" => ENABLED GenSteps)
    /\ [][(pc = "carving" /\ pc' = "carving") => Work' < Work]_gvars

\* Generation has completed on the largest lattice with every lattice cell
\* entered.
C9_Witness ==
    /\ pc = "generated"
    /\ width = MaxWidth /\ height = MaxHeight
    /\ Cardinality(DOMAIN entered) >= 4
    /\ VisitedOnce

BothEven == width % 2 = 0 /\ height % 2 = 0

\* C10: on the generated maze a_star_solve with its defaults returns a path
\* exactly when width and height are not both even; when both are even the
\* end cell has no path neighbour.
C10_SolvableIffNotBothEven ==
    /\ spc = "returned" => (result.some <=> ~BothEven)
    /\ (pc = "generated" /\ BothEven) =>
           \A c \in DOMAIN maze :
               Adjacent(c, <<height - 1, width - 1>>) => maze[c] = 0

\* Both even: the solver has returned None on the generated maze.
C10_Witness ==
    /\ spc = "returned"
    /\ BothEven
    /\ result = NoPath

====
